---------------------------- MODULE Spec2Model ----------------------------
(***************************************************************************)
(* Model of main.py: the relay endpoint POST /analyze-onedrive-image.      *)
(* One request is one coroutine: it checks the bearer credential and the   *)
(* provider key, GETs the image, POSTs it to the inference provider and    *)
(* normalizes the reply into an AnalyzeResponse.                           *)
(*                                                                         *)
(* Text is a sequence of one-character strings, so that strip, lower,      *)
(* endswith, find, rfind, json.loads, json.dumps and str work on           *)
(* characters as the Python code does.                                     *)
(***************************************************************************)
EXTENDS Integers, Sequences, FiniteSets, TLC

(* ------------------------------ bounds -------------------------------- *)
\* longest run of whitespace the environment puts around a header or a text
MaxPad == 1
\* number of language entries the environment puts in detectedLanguages
MaxLangs == 2

(* --------------------------- Python str ops --------------------------- *)
\* characters str.strip() removes that occur in the model's alphabet
PyWhitespace == {" ", "\t", "\n", "\r", "\f"}

RECURSIVE LStrip(_)
LStrip(s) ==
    IF s # <<>> /\ Head(s) \in PyWhitespace THEN LStrip(Tail(s)) ELSE s

RECURSIVE RStrip(_)
RStrip(s) ==
    IF s # <<>> /\ s[Len(s)] \in PyWhitespace
    THEN RStrip(SubSeq(s, 1, Len(s) - 1)) ELSE s

\* str.strip()
Strip(s) == RStrip(LStrip(s))

UpperCase == <<"A","B","C","D","E","F","G","H","I","J","K","L","M","N","O","P","Q","R","S","T","U","V","W","X","Y","Z">>
LowerCase == <<"a","b","c","d","e","f","g","h","i","j","k","l","m","n","o","p","q","r","s","t","u","v","w","x","y","z">>
LowerChar(c) ==
    IF \E i \in 1..26 : UpperCase[i] = c
    THEN LowerCase[CHOOSE i \in 1..26 : UpperCase[i] = c]
    ELSE c

\* str.lower()
Lower(s) == [i \in 1..Len(s) |-> LowerChar(s[i])]

\* str.endswith(suffix)
EndsWith(s, suffix) ==
    /\ Len(suffix) <= Len(s)
    /\ SubSeq(s, Len(s) - Len(suffix) + 1, Len(s)) = suffix

\* str.find(c) for a one-character c: 1-based index, 0 for Python's -1
Find(s, c) ==
    IF \E i \in 1..Len(s) : s[i] = c
    THEN CHOOSE i \in 1..Len(s) :
            s[i] = c /\ \A j \in 1..(i - 1) : s[j] # c
    ELSE 0

\* str.rfind(c) for a one-character c: 1-based index, 0 for Python's -1
RFind(s, c) ==
    IF \E i \in 1..Len(s) : s[i] = c
    THEN CHOOSE i \in 1..Len(s) :
            s[i] = c /\ \A j \in (i + 1)..Len(s) : s[j] # c
    ELSE 0

\* needle in haystack
Contains(haystack, needle) ==
    \E i \in 0..(Len(haystack) - Len(needle)) :
        SubSeq(haystack, i + 1, i + Len(needle)) = needle

DigitChar == <<"0","1","2","3","4","5","6","7","8","9">>

\* str(n) of a non-negative integer, as the f-strings format a status code
RECURSIVE IntToStr(_)
IntToStr(n) ==
    IF n < 10 THEN <<DigitChar[n + 1]>>
    ELSE Append(IntToStr(n \div 10), DigitChar[(n % 10) + 1])

(* ------------------------------ _guess_mime --------------------------- *)
\* the guess without the lower() of the URL
_guess_mime_caseSensitive(url) ==
    IF EndsWith(url, <<".","p","n","g">>) THEN "image/png"
    ELSE IF EndsWith(url, <<".","j","p","g">>) \/ EndsWith(url, <<".","j","p","e","g">>) THEN "image/jpeg"
    ELSE IF EndsWith(url, <<".","w","e","b","p">>) THEN "image/webp"
    ELSE "image/png"

_guess_mime(url) ==
    LET u == Lower(url) IN
    IF EndsWith(u, <<".","p","n","g">>) THEN "image/png"
    ELSE IF EndsWith(u, <<".","j","p","g">>) \/ EndsWith(u, <<".","j","p","e","g">>) THEN "image/jpeg"
    ELSE IF EndsWith(u, <<".","w","e","b","p">>) THEN "image/webp"
    ELSE "image/png"

(* ------------------------------ JSON values --------------------------- *)
\* A Python value json.loads can return.  A dict is the sequence of its
\* items in insertion order, each key once.
JNull == [type |-> "null"]
JBool(b) == [type |-> "bool", boolean |-> b]
JNum(n) == [type |-> "num", number |-> n]
JStr(s) == [type |-> "str", chars |-> s]
JArr(a) == [type |-> "arr", elems |-> a]
JObj(d) == [type |-> "obj", items |-> d]
Item(k, v) == [key |-> k, val |-> v]

DictHas(d, k) == \E i \in 1..Len(d) : d[i].key = k
\* d[k] = v: an existing key keeps its place and takes the new value
DictPut(d, k, v) ==
    IF DictHas(d, k)
    THEN [i \in 1..Len(d) |-> IF d[i].key = k THEN Item(k, v) ELSE d[i]]
    ELSE Append(d, Item(k, v))
\* dict.get(k, default)
DictGet(d, k, default) ==
    IF DictHas(d, k) THEN d[CHOOSE i \in 1..Len(d) : d[i].key = k].val
    ELSE default

(* ------------------------------ json.loads ---------------------------- *)
\* The grammar of Python's json module on the model's alphabet: objects,
\* arrays, strings with the escapes \" \\ \/ \n \t \r \f, integers, and the
\* literals true, false, null.
JsonWs == {" ", "\t", "\n", "\r"}
ControlChars == {"\t", "\n", "\r", "\f"}
Digits == {"0","1","2","3","4","5","6","7","8","9"}
DigitVal(c) == CHOOSE n \in 0..9 : DigitChar[n + 1] = c
Escapes == {"\"", "\\", "/", "n", "t", "r", "f"}
Unescape(c) ==
    CASE c = "n" -> "\n" [] c = "t" -> "\t" [] c = "r" -> "\r"
      [] c = "f" -> "\f" [] OTHER -> c

Ok(v, pos) == [val |-> v, pos |-> pos, ok |-> TRUE]
Fail == [val |-> JNull, pos |-> 0, ok |-> FALSE]

RECURSIVE SkipWs(_, _)
SkipWs(s, i) ==
    IF i <= Len(s) /\ s[i] \in JsonWs THEN SkipWs(s, i + 1) ELSE i

At(s, i, c) == i <= Len(s) /\ s[i] = c

Match(s, i, lit) ==
    /\ i + Len(lit) - 1 <= Len(s)
    /\ SubSeq(s, i, i + Len(lit) - 1) = lit

\* the character at k, inside a string literal whose body starts at lo, is
\* escaped: an odd run of backslashes ends right before it
Escaped(s, lo, k) ==
    /\ k > lo
    /\ s[k - 1] = "\\"
    /\ LET run == CHOOSE r \in 1..(k - lo) :
                    /\ \A d \in 1..r : s[k - d] = "\\"
                    /\ (k - r = lo \/ s[k - r - 1] # "\\")
       IN  run % 2 = 1

\* the string literal whose opening quote is at i - 1: its body runs from i
\* to the first quote that is not escaped
ScanString(s, i) ==
    LET closers == {j \in i..Len(s) : s[j] = "\"" /\ ~Escaped(s, i, j)} IN
    IF closers = {} THEN Fail
    ELSE LET close == CHOOSE j \in closers : \A k \in closers : j <= k
             Introducer(k) == s[k] = "\\" /\ ~Escaped(s, i, k)
             wellFormed ==
                 \A k \in i..(close - 1) :
                    /\ s[k] \notin ControlChars
                    /\ Introducer(k) => s[k + 1] \in Escapes
             kept == SelectSeq([m \in 1..(close - i) |-> i + m - 1],
                               LAMBDA k : ~Introducer(k))
         IN  IF ~wellFormed THEN Fail
             ELSE Ok(JStr([m \in 1..Len(kept) |->
                              IF Escaped(s, i, kept[m])
                              THEN Unescape(s[kept[m]]) ELSE s[kept[m]]]),
                     close + 1)

RECURSIVE ScanDigits(_, _, _)
ScanDigits(s, j, n) ==
    IF j <= Len(s) /\ s[j] \in Digits
    THEN ScanDigits(s, j + 1, 10 * n + DigitVal(s[j]))
    ELSE [number |-> n, pos |-> j]

\* -?(0|[1-9][0-9]*)
ParseNumber(s, i) ==
    LET neg == At(s, i, "-")
        j == IF neg THEN i + 1 ELSE i
    IN  IF ~(j <= Len(s) /\ s[j] \in Digits) THEN Fail
        ELSE LET r == IF s[j] = "0" THEN [number |-> 0, pos |-> j + 1]
                      ELSE ScanDigits(s, j, 0)
             IN  Ok(JNum(IF neg THEN 0 - r.number ELSE r.number), r.pos)

RECURSIVE ParseValue(_, _)
RECURSIVE ParseElements(_, _, _)
RECURSIVE ParseMembers(_, _, _)

\* the elements of an array from position j, which starts an element
ParseElements(s, j, acc) ==
    LET v == ParseValue(s, j) IN
    IF ~v.ok THEN Fail
    ELSE LET k == SkipWs(s, v.pos) IN
         IF At(s, k, "]") THEN Ok(JArr(Append(acc, v.val)), k + 1)
         ELSE IF At(s, k, ",")
              THEN ParseElements(s, SkipWs(s, k + 1), Append(acc, v.val))
              ELSE Fail

\* the members of an object from position j, which must start a key
ParseMembers(s, j, d) ==
    IF ~At(s, j, "\"") THEN Fail
    ELSE LET key == ScanString(s, j + 1) IN
         IF ~key.ok THEN Fail
         ELSE LET c == SkipWs(s, key.pos) IN
              IF ~At(s, c, ":") THEN Fail
              ELSE LET v == ParseValue(s, SkipWs(s, c + 1)) IN
                   IF ~v.ok THEN Fail
                   ELSE LET m == SkipWs(s, v.pos)
                            d2 == DictPut(d, key.val.chars, v.val)
                        IN  IF At(s, m, "}") THEN Ok(JObj(d2), m + 1)
                            ELSE IF At(s, m, ",")
                                 THEN ParseMembers(s, SkipWs(s, m + 1), d2)
                                 ELSE Fail

ParseValue(s, i) ==
    IF i > Len(s) THEN Fail
    ELSE IF s[i] = "\"" THEN ScanString(s, i + 1)
    ELSE IF s[i] = "{" THEN
        LET j == SkipWs(s, i + 1) IN
        IF At(s, j, "}") THEN Ok(JObj(<<>>), j + 1)
        ELSE ParseMembers(s, j, <<>>)
    ELSE IF s[i] = "[" THEN
        LET j == SkipWs(s, i + 1) IN
        IF At(s, j, "]") THEN Ok(JArr(<<>>), j + 1)
        ELSE ParseElements(s, j, <<>>)
    ELSE IF Match(s, i, <<"n","u","l","l">>) THEN Ok(JNull, i + 4)
    ELSE IF Match(s, i, <<"t","r","u","e">>) THEN Ok(JBool(TRUE), i + 4)
    ELSE IF Match(s, i, <<"f","a","l","s","e">>) THEN Ok(JBool(FALSE), i + 5)
    ELSE ParseNumber(s, i)

\* json.loads(s): [ok |-> FALSE] stands for the JSONDecodeError
Loads(s) ==
    LET r == ParseValue(s, SkipWs(s, 1)) IN
    IF r.ok /\ SkipWs(s, r.pos) = Len(s) + 1
    THEN [val |-> r.val, ok |-> TRUE]
    ELSE [val |-> JNull, ok |-> FALSE]

(* ------------------------------ json.dumps ---------------------------- *)
\* the concatenation of the sequences of ss
RECURSIVE Concat(_)
Concat(ss) ==
    IF ss = <<>> THEN <<>>
    ELSE IF Len(ss) = 1 THEN ss[1]
    ELSE LET h == Len(ss) \div 2 IN
         Concat(SubSeq(ss, 1, h)) \o Concat(SubSeq(ss, h + 1, Len(ss)))

RECURSIVE Join(_, _)
Join(sep, ss) ==
    IF ss = <<>> THEN <<>>
    ELSE IF Len(ss) = 1 THEN ss[1]
    ELSE ss[1] \o sep \o Join(sep, Tail(ss))

EscapeChar(c) ==
    CASE c = "\"" -> <<"\\","\"">> [] c = "\\" -> <<"\\","\\">>
      [] c = "\n" -> <<"\\","n">> [] c = "\t" -> <<"\\","t">>
      [] c = "\r" -> <<"\\","r">> [] c = "\f" -> <<"\\","f">>
      [] OTHER -> <<c>>

DumpsStr(s) == <<"\"">> \o Concat([i \in 1..Len(s) |-> EscapeChar(s[i])]) \o <<"\"">>

\* json.dumps(v) with the default separators ", " and ": "
RECURSIVE Dumps(_)
Dumps(v) ==
    CASE v.type = "null" -> <<"n","u","l","l">>
      [] v.type = "bool" -> IF v.boolean THEN <<"t","r","u","e">> ELSE <<"f","a","l","s","e">>
      [] v.type = "num" ->
            IF v.number < 0 THEN <<"-">> \o IntToStr(0 - v.number) ELSE IntToStr(v.number)
      [] v.type = "str" -> DumpsStr(v.chars)
      [] v.type = "arr" ->
            <<"[">> \o Join(<<","," ">>, [i \in 1..Len(v.elems) |-> Dumps(v.elems[i])]) \o <<"]">>
      [] v.type = "obj" ->
            <<"{">> \o Join(<<","," ">>, [i \in 1..Len(v.items) |->
                        DumpsStr(v.items[i].key) \o <<":"," ">> \o Dumps(v.items[i].val)])
                \o <<"}">>

(* ------------------------------ str() and truth ----------------------- *)
\* repr(v), which str() of a list or a dict applies to its members; the
\* alphabet has no single quote, so a str is shown between single quotes
ReprChar(c) == IF c = "\"" THEN <<c>> ELSE EscapeChar(c)

RECURSIVE PyRepr(_)
PyRepr(v) ==
    CASE v.type = "null" -> <<"N","o","n","e">>
      [] v.type = "bool" -> IF v.boolean THEN <<"T","r","u","e">> ELSE <<"F","a","l","s","e">>
      [] v.type = "num" ->
            IF v.number < 0 THEN <<"-">> \o IntToStr(0 - v.number) ELSE IntToStr(v.number)
      [] v.type = "str" ->
            <<"'">> \o Concat([i \in 1..Len(v.chars) |-> ReprChar(v.chars[i])]) \o <<"'">>
      [] v.type = "arr" ->
            <<"[">> \o Join(<<","," ">>, [i \in 1..Len(v.elems) |-> PyRepr(v.elems[i])]) \o <<"]">>
      [] v.type = "obj" ->
            <<"{">> \o Join(<<","," ">>, [i \in 1..Len(v.items) |->
                        PyRepr(JStr(v.items[i].key)) \o <<":"," ">> \o PyRepr(v.items[i].val)])
                \o <<"}">>

\* str(v)
PyStr(v) == IF v.type = "str" THEN v.chars ELSE PyRepr(v)

\* bool(v), as `x or []` tests it
Truthy(v) ==
    CASE v.type = "null" -> FALSE
      [] v.type = "bool" -> v.boolean
      [] v.type = "num" -> v.number # 0
      [] v.type = "str" -> v.chars # <<>>
      [] v.type = "arr" -> v.elems # <<>>
      [] v.type = "obj" -> v.items # <<>>
(* ------------------------------ state --------------------------------- *)
VARIABLES
    API_KEY,         \* module constant API_KEY, read from the environment
    GEMINI_API_KEY,  \* module constant GEMINI_API_KEY
    pc,              \* where the request's coroutine is
    req,             \* the request being handled: header and payload
    authorized,      \* _check_api_key(req) returned without raising
    mime_type,       \* local mime_type
    img_resp,        \* local img_resp, the reply to the GET
    gemini_body,     \* the inline_data sent with the POST
    g_resp,          \* local g_resp, the reply to the POST
    sent,            \* what the provider put in its reply
    calls,           \* the outbound calls of this request, in order
    response         \* what the endpoint answers

vars == <<API_KEY, GEMINI_API_KEY, pc, req, authorized, mime_type, img_resp,
          gemini_body, g_resp, sent, calls, response>>

(* ------------------------------ responses ----------------------------- *)
Pending == [kind |-> "none"]
\* raise HTTPException(status_code, detail)
HttpError(status, detail) ==
    [kind |-> "error", status |-> status, detail |-> detail]
\* an exception no handler catches: the framework answers 500
InternalServerError == HttpError(500, <<"I","n","t","e","r","n","a","l"," ","S","e","r","v","e","r"," ","E","r","r","o","r">>)
Success(body) == [kind |-> "success", status |-> 200, body |-> body]
Passed == [kind |-> "pass"]

NoHeader == [present |-> FALSE, value |-> <<>>]
Header(v) == [present |-> TRUE, value |-> v]
NoRequest == [auth |-> NoHeader, payload |-> [downloadUrl |-> <<>>, userQuery |-> <<>>]]
NoReply == [received |-> FALSE, status_code |-> 0, text |-> <<>>]
Reply(status, text) == [received |-> TRUE, status_code |-> status, text |-> text]
NothingSent == [kind |-> "none"]

(* ------------------------------ _check_api_key ------------------------ *)
\* the check without the strip() of the header
_check_api_key_noStrip(hdr) ==
    LET auth == IF hdr.present THEN hdr.value ELSE <<>>
        expected == <<"B","e","a","r","e","r"," ">> \o API_KEY
    IN  IF API_KEY = <<>>
        THEN HttpError(500, <<"S","e","r","v","e","r"," ","A","P","I","_","K","E","Y"," ","n","o","t"," ","c","o","n","f","i","g","u","r","e","d">>)
        ELSE IF auth # expected
             THEN HttpError(403, <<"F","o","r","b","i","d","d","e","n">>)
             ELSE Passed

\* the check without the test of an unset API_KEY
_check_api_key_noConfigTest(hdr) ==
    LET auth == IF hdr.present THEN hdr.value ELSE <<>>
        expected == <<"B","e","a","r","e","r"," ">> \o API_KEY
    IN  IF Strip(auth) # expected
        THEN HttpError(403, <<"F","o","r","b","i","d","d","e","n">>)
        ELSE Passed

_check_api_key(hdr) ==
    LET auth == IF hdr.present THEN hdr.value ELSE <<>>
        expected == <<"B","e","a","r","e","r"," ">> \o API_KEY
    IN  IF API_KEY = <<>>
        THEN HttpError(500, <<"S","e","r","v","e","r"," ","A","P","I","_","K","E","Y"," ","n","o","t"," ","c","o","n","f","i","g","u","r","e","d">>)
        ELSE IF Strip(auth) # expected
             THEN HttpError(403, <<"F","o","r","b","i","d","d","e","n">>)
             ELSE Passed

(* ------------------------------ _extract_text_from_gemini ------------- *)
FallbackMarker == <<"G","e","m","i","n","i"," ","d","i","d"," ","n","o","t"," ","r","e","t","u","r","n"," ","J","S","O","N",";"," ","f","a","l","l","b","a","c","k"," ","u","s","e","d",".">>

\* the wrapper with the marker left out
Fallback_noMarker(text) ==
    JObj(<< Item(<<"a","n","s","w","e","r">>, JStr(text)),
            Item(<<"i","m","a","g","e","S","u","m","m","a","r","y">>, JStr(<<>>)),
            Item(<<"e","x","t","r","a","c","t","e","d","T","e","x","t">>, JStr(<<>>)),
            Item(<<"d","e","t","e","c","t","e","d","L","a","n","g","u","a","g","e","s">>, JArr(<<>>)),
            Item(<<"s","a","f","e","t","y","N","o","t","e","s">>, JStr(<<>>)) >>)

Fallback(text) ==
    JObj(<< Item(<<"a","n","s","w","e","r">>, JStr(text)),
            Item(<<"i","m","a","g","e","S","u","m","m","a","r","y">>, JStr(<<>>)),
            Item(<<"e","x","t","r","a","c","t","e","d","T","e","x","t">>, JStr(<<>>)),
            Item(<<"d","e","t","e","c","t","e","d","L","a","n","g","u","a","g","e","s">>, JArr(<<>>)),
            Item(<<"s","a","f","e","t","y","N","o","t","e","s">>, JStr(FallbackMarker)) >>)

\* raw_text is a str here; the result is what the function returns
_extract_text_from_gemini(raw_text) ==
    LET text == Strip(raw_text)
        direct == Loads(text)
        start == Find(text, "{")
        end == RFind(text, "}")
        inner == IF start # 0 /\ end # 0 /\ end > start
                 THEN Loads(SubSeq(text, start, end))
                 ELSE [val |-> JNull, ok |-> FALSE]
    IN  IF direct.ok THEN direct.val
        ELSE IF inner.ok THEN inner.val
        ELSE Fallback(text)

(* ------------------------------ the envelope -------------------------- *)
Raised == [val |-> JNull, ok |-> FALSE]
Got(v) == [val |-> v, ok |-> TRUE]
\* x[key] for a str key: only a dict that has the key answers
Subscript(x, key) ==
    IF x.ok /\ x.val.type = "obj" /\ DictHas(x.val.items, key)
    THEN Got(DictGet(x.val.items, key, JNull)) ELSE Raised
\* x[0]: the first element of a list, the first character of a str
First(x) ==
    IF x.ok /\ x.val.type = "arr" /\ x.val.elems # <<>> THEN Got(x.val.elems[1])
    ELSE IF x.ok /\ x.val.type = "str" /\ x.val.chars # <<>>
         THEN Got(JStr(<<x.val.chars[1]>>))
         ELSE Raised

\* data["candidates"][0]["content"]["parts"][0]["reply"], or json.dumps(data)
RawText(data) ==
    LET t == Subscript(First(Subscript(Subscript(First(Subscript(
                 Got(data), <<"c","a","n","d","i","d","a","t","e","s">>)), <<"c","o","n","t","e","n","t">>), <<"p","a","r","t","s">>)), <<"t","e","x","t">>)
    IN  IF t.ok THEN t.val ELSE JStr(Dumps(data))

(* ------------------------------ AnalyzeResponse ----------------------- *)
\* list[str]: a list whose members are all str
IsStrList(v) ==
    v.type = "arr" /\ \A i \in 1..Len(v.elems) : v.elems[i].type = "str"

StrField(parsed, key) == PyStr(DictGet(parsed.items, key, JStr(<<>>)))

\* the languages read under a key the reply never has
LanguagesField_wrongKey(parsed) ==
    LET v == DictGet(parsed.items, <<"d","e","t","e","c","t","e","d","_","l","a","n","g","u","a","g","e","s">>, JArr(<<>>))
    IN  IF Truthy(v) THEN v ELSE JArr(<<>>)

LanguagesField(parsed) ==
    LET v == DictGet(parsed.items, <<"d","e","t","e","c","t","e","d","L","a","n","g","u","a","g","e","s">>, JArr(<<>>))
    IN  IF Truthy(v) THEN v ELSE JArr(<<>>)

\* AnalyzeResponse(answer=str(parsed.get("answer", "")), ...)
BuildResponse(parsed) ==
    IF parsed.type # "obj" THEN InternalServerError
    ELSE IF ~IsStrList(LanguagesField(parsed)) THEN InternalServerError
    ELSE Success([answer |-> StrField(parsed, <<"a","n","s","w","e","r">>),
                  imageSummary |-> StrField(parsed, <<"i","m","a","g","e","S","u","m","m","a","r","y">>),
                  extractedText |-> StrField(parsed, <<"e","x","t","r","a","c","t","e","d","T","e","x","t">>),
                  detectedLanguages |->
                      [i \in 1..Len(LanguagesField(parsed).elems) |->
                          LanguagesField(parsed).elems[i].chars],
                  safetyNotes |-> StrField(parsed, <<"s","a","f","e","t","y","N","o","t","e","s">>)])

\* lines 168-182: from the provider's 200 reply to the endpoint's answer
Normalize(text) ==
    LET data == Loads(text) IN
    IF ~data.ok THEN InternalServerError
    ELSE LET raw_text == RawText(data.val) IN
         IF raw_text.type # "str" THEN InternalServerError
         ELSE BuildResponse(_extract_text_from_gemini(raw_text.chars))
(* ------------------------------ the environment ----------------------- *)
\* every sequence over chars of length at most n
SeqsUpTo(chars, n) == UNION {[1..k -> chars] : k \in 0..n}

ConfiguredKeys == {<<>>, <<"s","3">>}
ProviderKeys == {<<>>, <<"g","1">>}

HeaderPads == SeqsUpTo({" ", "\t"}, MaxPad)
HeaderCores ==
    { <<>>, <<"B","e","a","r","e","r"," ">>, <<"B","e","a","r","e","r"," ","s","3">>, <<"B","e","a","r","e","r"," ","s","3","x">>, <<"B","e","a","r","e","r"," ","s">>, <<"b","e","a","r","e","r"," ","s","3">>,
      <<"B","e","a","r","e","r"," "," ","s","3">>, <<"B","e","a","r","e","r"," ","s"," ","3">>, <<"s","3">>, <<"B","a","s","i","c"," ","s","3">> }
Headers ==
    {NoHeader} \cup
    {Header(l \o c \o r) : l \in HeaderPads, c \in HeaderCores, r \in HeaderPads}
GoodHeader == Header(<<"B","e","a","r","e","r"," ","s","3">>)

UrlStem == <<"h","t","t","p","s",":","/","/","h","/","i","m","g">>
UrlExts ==
    { <<>>, <<".","p","n","g">>, <<".","P","N","G">>, <<".","j","p","g">>, <<".","J","p","g">>, <<".","j","p","e","g">>, <<".","J","P","E","G">>, <<".","w","e","b","p">>,
      <<".","W","e","b","P">>, <<".","g","i","f">>, <<".","p","n","g",".","g","i","f">>, <<".","g","i","f",".","j","p","g">>, <<"j","p","g">> }
UrlTails == { <<>>, <<"?","t","=","1">>, <<"?","f","=",".","j","p","g">>, <<"#",".","w","e","b","p">>, <<"/">> }
AllUrls == {UrlStem \o e \o q : e \in UrlExts, q \in UrlTails}
FewUrls == {UrlStem \o <<".","j","p","g">>, UrlStem \o <<".","p","n","g","?","t","=","1">>}
Queries == {<<"w","h","a","t"," ","i","s"," ","t","h","i","s","?">>, <<>>}
Payload(url, q) == [downloadUrl |-> url, userQuery |-> q]

ImageStatuses == {200, 404, 403, 302, 500}
ProviderFailures == {500, 429, 400}
FailureBodies == {<<>>, <<"{","\"","e","r","r","o","r","\"",":"," ","\"","q","u","o","t","a","\"","}">>, <<"b","u","s","y"," ","5","0","3">>}

\* the reply object the prompt asks for
Langs == <<<<"e","n">>, <<"f","r">>, <<"d","e">>>>
LangList(n) == JArr([i \in 1..n |-> JStr(Langs[((i - 1) % 3) + 1])])
FullObject(n) ==
    JObj(<< Item(<<"a","n","s","w","e","r">>, JStr(<<"a"," ","c","a","t">>)),
            Item(<<"i","m","a","g","e","S","u","m","m","a","r","y">>, JStr(<<"c","a","t"," ","o","n"," ","m","a","t">>)),
            Item(<<"e","x","t","r","a","c","t","e","d","T","e","x","t">>, JStr(<<"\"","h","i","\""," ","{","x","}">>)),
            Item(<<"d","e","t","e","c","t","e","d","L","a","n","g","u","a","g","e","s">>, LangList(n)),
            Item(<<"s","a","f","e","t","y","N","o","t","e","s">>, JStr(<<"o","k">>)) >>)
EmptyObject ==
    JObj(<< Item(<<"a","n","s","w","e","r">>, JStr(<<>>)),
            Item(<<"i","m","a","g","e","S","u","m","m","a","r","y">>, JStr(<<>>)),
            Item(<<"e","x","t","r","a","c","t","e","d","T","e","x","t">>, JStr(<<>>)),
            Item(<<"d","e","t","e","c","t","e","d","L","a","n","g","u","a","g","e","s">>, JArr(<<>>)),
            Item(<<"s","a","f","e","t","y","N","o","t","e","s">>, JStr(<<>>)) >>)
PartialObjects ==
    << JObj(<<Item(<<"a","n","s","w","e","r">>, JStr(<<"x">>))>>),
       JObj(<<>>),
       JObj(<<Item(<<"i","m","a","g","e","S","u","m","m","a","r","y">>, JStr(<<"s">>)), Item(<<"s","a","f","e","t","y","N","o","t","e","s">>, JStr(<<"n">>))>>),
       JObj(<<Item(<<"a","n","s","w","e","r">>, JStr(<<"x">>)), Item(<<"e","x","t","r","a">>, JNum(1))>>),
       JObj(<<Item(<<"a","n","s","w","e","r">>, JStr(<<"x">>)), Item(<<"d","e","t","e","c","t","e","d","L","a","n","g","u","a","g","e","s">>, JNull)>>) >>
WrongTypedObjects ==
    << JObj(<<Item(<<"a","n","s","w","e","r">>, JNum(7))>>),
       JObj(<<Item(<<"a","n","s","w","e","r">>, JNull), Item(<<"i","m","a","g","e","S","u","m","m","a","r","y">>, JBool(TRUE))>>),
       JObj(<<Item(<<"a","n","s","w","e","r">>, JObj(<<Item(<<"k">>, JStr(<<"v">>))>>))>>),
       JObj(<<Item(<<"a","n","s","w","e","r">>, JStr(<<"x">>)), Item(<<"d","e","t","e","c","t","e","d","L","a","n","g","u","a","g","e","s">>, JStr(<<"e","n">>))>>),
       JObj(<<Item(<<"a","n","s","w","e","r">>, JStr(<<"x">>)), Item(<<"d","e","t","e","c","t","e","d","L","a","n","g","u","a","g","e","s">>, JNum(5))>>),
       JObj(<<Item(<<"a","n","s","w","e","r">>, JStr(<<"x">>)), Item(<<"d","e","t","e","c","t","e","d","L","a","n","g","u","a","g","e","s">>, JArr(<<JNull>>))>>),
       JObj(<<Item(<<"a","n","s","w","e","r">>, JStr(<<"x">>)), Item(<<"d","e","t","e","c","t","e","d","L","a","n","g","u","a","g","e","s">>, JBool(FALSE))>>) >>
OtherJson ==
    << JArr(<<JNum(1), JNum(2)>>), JArr(<<>>), JStr(<<"x">>), JNum(5), JNull,
       JBool(TRUE) >>
NotJson ==
    << <<"p","l","a","i","n"," ","u","n","s","t","r","u","c","t","u","r","e","d"," ","r","e","p","l","y">>, <<>>, <<"{","\"","a","n","s","w","e","r","\"",":"," ","\"","x","\"">>, <<"{","a","n","s","w","e","r",":"," ","x","}">>,
       <<"{","\"","a","n","s","w","e","r","\"",":"," ","\"","a","\"",","," ","\"","a","n","s","w","e","r","\"",":"," ","\"","b","\"","}"," ","{">>, <<"a"," ","}"," ","b"," ","{"," ","c">> >>

JsonCore(v) == [val |-> v, dumped |-> TRUE, txt |-> Dumps(v)]
TextCore(t) == [val |-> JNull, dumped |-> FALSE, txt |-> t]
Cores ==
    [n \in 1..(MaxLangs + 1) |-> JsonCore(FullObject(n - 1))]
    \o <<JsonCore(EmptyObject)>>
    \o [i \in 1..Len(PartialObjects) |-> JsonCore(PartialObjects[i])]
    \o [i \in 1..Len(WrongTypedObjects) |-> JsonCore(WrongTypedObjects[i])]
    \o [i \in 1..Len(OtherJson) |-> JsonCore(OtherJson[i])]
    \o [i \in 1..Len(NotJson) |-> TextCore(NotJson[i])]
TextPads == SeqsUpTo({" ", "\f"}, MaxPad)
Leads == TextPads \cup {<<"n","o","i","s","e"," ">>, <<"{"," ">>, <<"}"," ">>}
Trails == TextPads \cup {<<" ","t","r","a","i","l","i","n","g">>, <<" ","}">>, <<" ","{">>}

\* the provider's envelope around a reply text
Envelope(text) ==
    JObj(<<Item(<<"c","a","n","d","i","d","a","t","e","s">>, JArr(<<
        JObj(<<Item(<<"c","o","n","t","e","n","t">>, JObj(<<
            Item(<<"p","a","r","t","s">>, JArr(<<JObj(<<Item(<<"t","e","x","t">>, text)>>)>>)) >>)) >>) >>)) >>)

OddEnvelopes ==
    << JObj(<<>>),
       JObj(<<Item(<<"c","a","n","d","i","d","a","t","e","s">>, JArr(<<>>))>>),
       JObj(<<Item(<<"c","a","n","d","i","d","a","t","e","s">>, JStr(<<"b","l","o","c","k","e","d">>))>>),
       JObj(<<Item(<<"e","r","r","o","r">>, JStr(<<"x">>)), Item(<<"a","n","s","w","e","r">>, JStr(<<"t","o","p">>))>>),
       JArr(<<>>),
       JNull,
       Envelope(JNum(5)),
       Envelope(JNull) >>

\* a 200 reply whose text part is lead, core, trail
TextReply(lead, core, trail) ==
    [sent |-> [kind |-> "reply", lead |-> lead, core |-> core, trail |-> trail],
     status_code |-> 200,
     text |-> Dumps(Envelope(JStr(lead \o core.txt \o trail)))]
\* a 200 reply with another envelope
EnvelopeReply(v) ==
    [sent |-> [val |-> v, kind |-> "envelope"], status_code |-> 200,
     text |-> Dumps(v)]
\* a 200 reply whose body is not JSON
GarbageReply ==
    [sent |-> [kind |-> "garbage"], status_code |-> 200, text |-> <<"<","h","t","m","l",">">>]
FailureReply(status, body) ==
    [sent |-> [kind |-> "failure"], status_code |-> status, text |-> body]

(* ------------------------------ the handler --------------------------- *)
\* line 97: if img_resp.status_code != 200
FetchFailed_redirectsPass(status) == status >= 400
FetchFailed(status) == status # 200

\* lines 98-101: the error of a failed fetch
FetchFailure_noStatus(status) ==
    HttpError(404, <<"F","a","i","l","e","d"," ","t","o"," ","f","e","t","c","h"," ","i","m","a","g","e"," ","f","r","o","m"," ","O","n","e","D","r","i","v","e">>)
FetchFailure(status) ==
    HttpError(404, <<"F","a","i","l","e","d"," ","t","o"," ","f","e","t","c","h"," ","i","m","a","g","e"," ","f","r","o","m"," ","O","n","e","D","r","i","v","e"," ","(","s","t","a","t","u","s"," ">>
                       \o IntToStr(status) \o <<")">>)

\* lines 162-166: the error of a failed inference call
ProviderFailure_noBody(status, text) ==
    HttpError(500, <<"G","e","m","i","n","i"," ","e","r","r","o","r"," ">> \o IntToStr(status))
ProviderFailure(status, text) ==
    HttpError(500, <<"G","e","m","i","n","i"," ","e","r","r","o","r"," ">> \o IntToStr(status) \o <<":"," ">> \o text)

Init ==
    /\ API_KEY \in ConfiguredKeys
    /\ GEMINI_API_KEY \in ProviderKeys
    /\ pc = "idle"
    /\ req = NoRequest
    /\ authorized = FALSE
    /\ mime_type = ""
    /\ img_resp = NoReply
    /\ gemini_body = [mime_type |-> ""]
    /\ g_resp = NoReply
    /\ sent = NothingSent
    /\ calls = <<>>
    /\ response = Pending

\* lines 87-96: the request arrives and runs to the await of the GET
Receive(hdr, payload) ==
    /\ pc = "idle"
    /\ req' = [auth |-> hdr, payload |-> payload]
    /\ LET checked == _check_api_key(hdr) IN
       IF checked.kind = "error"
       THEN /\ response' = checked
            /\ pc' = "done"
            /\ UNCHANGED <<authorized, mime_type, calls>>
       ELSE IF GEMINI_API_KEY = <<>>
       THEN /\ response' = HttpError(500, <<"G","E","M","I","N","I","_","A","P","I","_","K","E","Y"," ","n","o","t"," ","c","o","n","f","i","g","u","r","e","d">>)
            /\ pc' = "done"
            /\ authorized' = TRUE
            /\ UNCHANGED <<mime_type, calls>>
       ELSE /\ authorized' = TRUE
            /\ mime_type' = _guess_mime(payload.downloadUrl)
            /\ calls' = Append(calls, "GET")
            /\ pc' = "awaitGet"
            /\ UNCHANGED response
    /\ UNCHANGED <<API_KEY, GEMINI_API_KEY, img_resp, gemini_body, g_resp, sent>>

\* lines 96-161: the GET answers; on 200 the handler runs to the POST
ImageResponse(status) ==
    /\ pc = "awaitGet"
    /\ img_resp' = Reply(status, <<>>)
    /\ IF FetchFailed(status)
       THEN /\ response' = FetchFailure(status)
            /\ calls' = Append(calls, "GET.done")
            /\ pc' = "done"
            /\ UNCHANGED gemini_body
       ELSE /\ gemini_body' = [mime_type |-> mime_type]
            /\ calls' = calls \o <<"GET.done", "POST">>
            /\ pc' = "awaitPost"
            /\ UNCHANGED response
    /\ UNCHANGED <<API_KEY, GEMINI_API_KEY, req, authorized, mime_type, g_resp, sent>>

\* line 96: the GET raises (timeout, connection error)
ImageFetchError ==
    /\ pc = "awaitGet"
    /\ response' = InternalServerError
    /\ calls' = Append(calls, "GET.done")
    /\ pc' = "done"
    /\ UNCHANGED <<API_KEY, GEMINI_API_KEY, req, authorized, mime_type,
                   img_resp, gemini_body, g_resp, sent>>

\* lines 161-182: the POST answers and the handler runs to its end
GeminiResponse(reply) ==
    /\ pc = "awaitPost"
    /\ g_resp' = Reply(reply.status_code, reply.text)
    /\ sent' = reply.sent
    /\ response' =
          IF reply.status_code # 200
          THEN ProviderFailure(reply.status_code, reply.text)
          ELSE Normalize(reply.text)
    /\ calls' = Append(calls, "POST.done")
    /\ pc' = "done"
    /\ UNCHANGED <<API_KEY, GEMINI_API_KEY, req, authorized, mime_type,
                   img_resp, gemini_body>>

\* line 161: the POST raises (timeout, connection error)
GeminiCallError ==
    /\ pc = "awaitPost"
    /\ response' = InternalServerError
    /\ calls' = Append(calls, "POST.done")
    /\ pc' = "done"
    /\ UNCHANGED <<API_KEY, GEMINI_API_KEY, req, authorized, mime_type,
                   img_resp, gemini_body, g_resp, sent>>

\* the answer is sent; nothing of the request is kept
Deliver ==
    /\ pc = "done"
    /\ pc' = "idle"
    /\ req' = NoRequest
    /\ authorized' = FALSE
    /\ mime_type' = ""
    /\ img_resp' = NoReply
    /\ gemini_body' = [mime_type |-> ""]
    /\ g_resp' = NoReply
    /\ sent' = NothingSent
    /\ calls' = <<>>
    /\ response' = Pending
    /\ UNCHANGED <<API_KEY, GEMINI_API_KEY>>

\* the replies of the provider the flow is explored with
FewCores ==
    << JsonCore(FullObject(MaxLangs)), JsonCore(OtherJson[1]),
       TextCore(NotJson[1]) >>
ProviderReplies ==
    \/ \E s \in ProviderFailures, b \in FailureBodies :
          GeminiResponse(FailureReply(s, b))
    \/ \E i \in 1..Len(OddEnvelopes) : GeminiResponse(EnvelopeReply(OddEnvelopes[i]))
    \/ GeminiResponse(GarbageReply)

Next ==
    \/ \E h \in Headers, u \in FewUrls, q \in Queries : Receive(h, Payload(u, q))
    \/ \E s \in ImageStatuses : ImageResponse(s)
    \/ ImageFetchError
    \/ ProviderReplies
    \/ \E i \in 1..Len(FewCores) :
          GeminiResponse(TextReply(<<>>, FewCores[i], <<>>))
    \/ GeminiCallError
    \/ Deliver

Spec == Init /\ [][Next]_vars

\* the same handler, explored over the URLs
NextMime ==
    \/ \E u \in AllUrls : Receive(GoodHeader, Payload(u, <<>>))
    \/ \E s \in {200, 404} : ImageResponse(s)
    \/ ImageFetchError
    \/ GeminiResponse(FailureReply(500, <<>>))
    \/ GeminiCallError
    \/ Deliver

SpecMime == Init /\ [][NextMime]_vars

\* the same handler, explored over the provider's reply texts
NextNorm ==
    \/ Receive(GoodHeader, Payload(UrlStem, <<>>))
    \/ ImageResponse(200)
    \/ ImageFetchError
    \/ ProviderReplies
    \/ \E l \in Leads, i \in 1..Len(Cores), t \in Trails :
          GeminiResponse(TextReply(l, Cores[i], t))
    \/ GeminiCallError
    \/ Deliver

SpecNorm == Init /\ [][NextNorm]_vars

(* ------------------------------ properties ---------------------------- *)
Handling == pc # "idle"
Done == pc = "done"
HeaderValue == IF req.auth.present THEN req.auth.value ELSE <<>>
ExpectedHeader == <<"B","e","a","r","e","r"," ">> \o API_KEY
CredentialMatches == Strip(HeaderValue) = ExpectedHeader
Rejected(status) == Done /\ response.kind = "error" /\ response.status = status
Count(x) == Cardinality({i \in 1..Len(calls) : calls[i] = x})

\* C1, as stated: with a configured secret the authentication check succeeds
\* only if the Authorization header equals exactly "Bearer " followed by the
\* secret; every other header value is rejected.
C1_OnlyTheExactHeaderPasses ==
    (Handling /\ API_KEY # <<>> /\ authorized)
        => (req.auth.present /\ req.auth.value = ExpectedHeader)

\* C1, amended: with a configured secret the authentication check succeeds
\* exactly when the Authorization header, its leading and trailing whitespace
\* removed, equals "Bearer " followed by the secret; every other header value
\* (missing, malformed, differing inside) is rejected with 403.
C1_OnlyTheStrippedHeaderPasses ==
    (Handling /\ API_KEY # <<>>)
        => /\ authorized <=> CredentialMatches
           /\ ~CredentialMatches => Rejected(403)

\* a header with whitespace around the credential has passed the check
C1_Witness ==
    /\ Handling /\ authorized
    /\ req.auth.value = <<" ">> \o ExpectedHeader
    /\ pc = "awaitGet"

C3_Every200ReplySucceeds ==
    (Done /\ g_resp.received /\ g_resp.status_code = 200)
        => (response.kind = "success" /\ response.status = 200)

\* C4: when the image GET answers a status other than 200 the request fails
\* with 404, the detail contains the status, and no AnalyzeResponse is
\* returned.
C4_FailedFetchIs404WithStatus ==
    (Handling /\ img_resp.received /\ img_resp.status_code # 200)
        => /\ Rejected(404)
           /\ Contains(response.detail, IntToStr(img_resp.status_code))
           /\ Count("POST") = 0

\* an image URL answering 404
C4_Witness ==
    /\ Done /\ img_resp.received /\ img_resp.status_code = 404
    /\ response.kind = "error" /\ response.status = 404
    /\ Contains(response.detail, <<"4","0","4">>)

\* C5: when the inference POST answers a status other than 200 the request
\* fails with 500, the detail carries the upstream status and then the raw
\* upstream body, and no AnalyzeResponse is returned.
C5_FailedInferenceIs500WithStatusAndBody ==
    (Handling /\ g_resp.received /\ g_resp.status_code # 200)
        => /\ Rejected(500)
           /\ EndsWith(response.detail, g_resp.text)
           /\ Contains(SubSeq(response.detail, 1,
                              Len(response.detail) - Len(g_resp.text)),
                       IntToStr(g_resp.status_code))

\* the provider answering 429 with a body
C5_Witness ==
    /\ Done /\ g_resp.received /\ g_resp.status_code = 429
    /\ g_resp.text = <<"{","\"","e","r","r","o","r","\"",":"," ","\"","q","u","o","t","a","\"","}">>
    /\ response.kind = "error" /\ response.status = 500
    /\ Contains(response.detail, <<"4","2","9",":"," ","{","\"","e","r","r","o","r","\"",":"," ","\"","q","u","o","t","a","\"","}">>)

\* the text part the provider sent
RawSent == sent.lead \o sent.core.txt \o sent.trail
TextSent == Done /\ sent.kind = "reply"
DirectParses(raw) == Loads(Strip(raw)).ok
\* the parse of the part of the trimmed text from its first { to its last }
Embedded(raw) ==
    LET text == Strip(raw)
        start == Find(text, "{")
        end == RFind(text, "}")
    IN  IF start # 0 /\ end > start
        THEN Loads(SubSeq(text, start, end))
        ELSE [val |-> JNull, ok |-> FALSE]
FallbackBody(answer) ==
    [answer |-> answer, imageSummary |-> <<>>, extractedText |-> <<>>,
     detectedLanguages |-> <<>>, safetyNotes |-> FallbackMarker]

\* C6, as stated: when neither the strict parse nor the parse of the part
\* from the first { to the last } succeeds, the result is the fallback
\* object whose answer is the entire raw text.
C6_FallbackKeepsEntireRawText ==
    (TextSent /\ ~DirectParses(RawSent) /\ ~Embedded(RawSent).ok)
        => response = Success(FallbackBody(RawSent))

\* C6, amended: when neither parse succeeds, the result is exactly the
\* fallback object whose answer is the raw text with its leading and
\* trailing whitespace removed, the other strings empty, no languages and
\* the fixed marker as safetyNotes.
C6_FallbackKeepsTrimmedRawText ==
    (TextSent /\ ~DirectParses(RawSent) /\ ~Embedded(RawSent).ok)
        => response = Success(FallbackBody(Strip(RawSent)))

\* the reply "plain unstructured reply" with whitespace before it
C6_Witness ==
    /\ TextSent /\ sent.lead # <<>> /\ ~sent.core.dumped
    /\ sent.core.txt = <<"p","l","a","i","n"," ","u","n","s","t","r","u","c","t","u","r","e","d"," ","r","e","p","l","y">> /\ sent.trail = <<>>
    /\ response.kind = "success"
    /\ response.body.answer = <<"p","l","a","i","n"," ","u","n","s","t","r","u","c","t","u","r","e","d"," ","r","e","p","l","y">>
    /\ response.body.safetyNotes = FallbackMarker

StringKeys == {<<"a","n","s","w","e","r">>, <<"i","m","a","g","e","S","u","m","m","a","r","y">>, <<"e","x","t","r","a","c","t","e","d","T","e","x","t">>, <<"s","a","f","e","t","y","N","o","t","e","s">>}
BodyField(key) ==
    CASE key = <<"a","n","s","w","e","r">> -> response.body.answer
      [] key = <<"i","m","a","g","e","S","u","m","m","a","r","y">> -> response.body.imageSummary
      [] key = <<"e","x","t","r","a","c","t","e","d","T","e","x","t">> -> response.body.extractedText
      [] key = <<"s","a","f","e","t","y","N","o","t","e","s">> -> response.body.safetyNotes
\* the body has the fields of the object d, and the default where d has none
TakenFrom(d) ==
    /\ \A key \in StringKeys :
          IF DictHas(d, key)
          THEN DictGet(d, key, JNull).type = "str"
                  => BodyField(key) = DictGet(d, key, JNull).chars
          ELSE BodyField(key) = <<>>
    /\ IF DictHas(d, <<"d","e","t","e","c","t","e","d","L","a","n","g","u","a","g","e","s">>)
       THEN IsStrList(DictGet(d, <<"d","e","t","e","c","t","e","d","L","a","n","g","u","a","g","e","s">>, JNull))
               => response.body.detectedLanguages =
                     [i \in 1..Len(DictGet(d, <<"d","e","t","e","c","t","e","d","L","a","n","g","u","a","g","e","s">>, JNull).elems) |->
                         DictGet(d, <<"d","e","t","e","c","t","e","d","L","a","n","g","u","a","g","e","s">>, JNull).elems[i].chars]
       ELSE response.body.detectedLanguages = <<>>

\* C7: when the raw text is not valid JSON but its part from the first { to
\* the last } parses as an object, the result takes its fields from that
\* object and every field the object lacks gets its default: the empty
\* string, and the empty sequence for detectedLanguages.
C7_EmbeddedObjectWithDefaults ==
    (TextSent /\ ~DirectParses(RawSent) /\ Embedded(RawSent).ok)
        => /\ response.kind = "success"
           /\ TakenFrom(Embedded(RawSent).val.items)

\* the full reply object the provider serializes
ShapeMatches(v) ==
    /\ v.type = "obj"
    /\ {v.items[i].key : i \in 1..Len(v.items)} = StringKeys \cup {<<"d","e","t","e","c","t","e","d","L","a","n","g","u","a","g","e","s">>}
    /\ \A key \in StringKeys : DictGet(v.items, key, JNull).type = "str"
    /\ IsStrList(DictGet(v.items, <<"d","e","t","e","c","t","e","d","L","a","n","g","u","a","g","e","s">>, JNull))
BodyOf(v) ==
    [answer |-> DictGet(v.items, <<"a","n","s","w","e","r">>, JNull).chars,
     imageSummary |-> DictGet(v.items, <<"i","m","a","g","e","S","u","m","m","a","r","y">>, JNull).chars,
     extractedText |-> DictGet(v.items, <<"e","x","t","r","a","c","t","e","d","T","e","x","t">>, JNull).chars,
     detectedLanguages |->
         [i \in 1..Len(DictGet(v.items, <<"d","e","t","e","c","t","e","d","L","a","n","g","u","a","g","e","s">>, JNull).elems) |->
             DictGet(v.items, <<"d","e","t","e","c","t","e","d","L","a","n","g","u","a","g","e","s">>, JNull).elems[i].chars],
     safetyNotes |-> DictGet(v.items, <<"s","a","f","e","t","y","N","o","t","e","s">>, JNull).chars]

\* C8: when the raw text is the JSON of an object of AnalyzeResponse's shape
\* (four strings and a sequence of strings), with or without whitespace
\* around it, the result equals that object field for field.
C8_ShapedJsonRoundTrips ==
    (TextSent /\ sent.core.dumped /\ ShapeMatches(sent.core.val)
        /\ Strip(sent.lead) = <<>> /\ Strip(sent.trail) = <<>>)
        => response = Success(BodyOf(sent.core.val))

\* a full object with its languages, whitespace on both sides
C8_Witness ==
    /\ TextSent /\ sent.core.dumped /\ ShapeMatches(sent.core.val)
    /\ sent.lead = <<"\f">> /\ sent.trail = <<" ">>
    /\ response.kind = "success"
    /\ response.body.answer = <<"a"," ","c","a","t">>
    /\ Len(response.body.detectedLanguages) = MaxLangs

\* the URL's path: the URL up to its query or fragment
CutAt(s, c) == IF Find(s, c) = 0 THEN s ELSE SubSeq(s, 1, Find(s, c) - 1)
UrlPath(url) == CutAt(CutAt(url, "?"), "#")
\* the trailing segment of the path, and its extension with the dot
TrailingSegment(url) ==
    SubSeq(UrlPath(url), RFind(UrlPath(url), "/") + 1, Len(UrlPath(url)))
Extension(seg) ==
    IF RFind(seg, ".") = 0 THEN <<>> ELSE SubSeq(seg, RFind(seg, "."), Len(seg))
MimeOfExtension(ext) ==
    CASE Lower(ext) = <<".","p","n","g">> -> "image/png"
      [] Lower(ext) \in {<<".","j","p","g">>, <<".","j","p","e","g">>} -> "image/jpeg"
      [] Lower(ext) = <<".","w","e","b","p">> -> "image/webp"
      [] OTHER -> "image/png"
Guessed == Handling /\ authorized /\ GEMINI_API_KEY # <<>>

\* C9, as stated: the guessed MIME type is determined by the extension of
\* the URL's trailing path segment, compared case-insensitively.
C9_MimeByPathExtension ==
    Guessed =>
        mime_type = MimeOfExtension(Extension(TrailingSegment(req.payload.downloadUrl)))

SameLetter(a, b) ==
    a = b \/ \E i \in 1..26 : {a, b} = {UpperCase[i], LowerCase[i]}
\* the whole URL string ends with suffix, letter case aside
UrlEndsWith(url, suffix) ==
    /\ Len(suffix) <= Len(url)
    /\ \A i \in 1..Len(suffix) :
          SameLetter(url[Len(url) - Len(suffix) + i], suffix[i])

\* C9, amended: the guessed MIME type is determined by the last characters
\* of the whole URL string, query and fragment included, compared
\* case-insensitively: .jpg and .jpeg give image/jpeg, .webp gives
\* image/webp, and every other URL, .png among them, gives image/png.
C9_MimeByUrlSuffix ==
    Guessed =>
        LET url == req.payload.downloadUrl IN
        mime_type =
            IF UrlEndsWith(url, <<".","j","p","g">>) \/ UrlEndsWith(url, <<".","j","p","e","g">>)
            THEN "image/jpeg"
            ELSE IF UrlEndsWith(url, <<".","w","e","b","p">>) THEN "image/webp"
            ELSE "image/png"

\* an upper-case extension at the end of the URL
C9_Witness ==
    /\ Guessed
    /\ req.payload.downloadUrl = UrlStem \o <<".","J","P","E","G">>
    /\ mime_type = "image/jpeg"

\* C10: one request issues at most one GET and at most one POST, the POST
\* right after the GET has completed with status 200 and never after a
\* failed GET, and no outbound call unless the bearer check and the provider
\* key check have both passed.
C10_CallDiscipline ==
    /\ Count("GET") <= 1
    /\ Count("POST") <= 1
    /\ \A i \in 1..Len(calls) :
          calls[i] = "POST" =>
              /\ i > 1 /\ calls[i - 1] = "GET.done"
              /\ img_resp.received /\ img_resp.status_code = 200
    /\ \A i \in 1..Len(calls) :
          calls[i] = "GET.done" => (i > 1 /\ calls[i - 1] = "GET")
    /\ calls # <<>> =>
          /\ calls[1] = "GET"
          /\ authorized /\ CredentialMatches
          /\ API_KEY # <<>> /\ GEMINI_API_KEY # <<>>

\* a request that made both calls and was answered
C10_Witness ==
    /\ Done /\ response.kind = "success"
    /\ calls = <<"GET", "GET.done", "POST", "POST.done">>

=============================================================================
